---- MODULE Spec2Model ----
(***************************************************************************)
(* Art-Link: the slide controller and page chrome of js/main.js and the    *)
(* gallery lightbox of js/gallery.js, as event-driven state machines.      *)
(* One action per DOM event; an action is the whole listener, run to       *)
(* completion or to its first uncaught exception.                          *)
(***************************************************************************)
EXTENDS Integers, Sequences, FiniteSets, TLC

\* ------------------------------------------------------------------ bounds
MaxSlides == 3
MaxTimers == 2
MaxItems == 2

\* --------------------------------------------------------------- constants
\* autoSlideId = null: setInterval only hands out ids greater than zero
Null == 0
\* the result of x % 0 in JavaScript (NaN), an index no slide has
NaN == -1000
\* style.transform of a slide showSlide has not positioned yet
NoTransform == 1
\* the scroll threshold of the navbar
ScrollThreshold == 60
\* the period of the auto-advance interval, in ms
AUTO_SLIDE_INTERVAL_MS == 7000

VARIABLES
    \* main.js, slide controller
    slides,        \* sequence of the slides' translateX percentages
    nextBtn,       \* TRUE iff #next exists
    prevBtn,       \* TRUE iff #prev exists
    index,
    autoSlideId,
    intervals,     \* ids of the intervals created and not yet cleared
    remaining,     \* for each live interval, the ms until it is due
    listening,     \* TRUE once attachListeners has run
    hovering,      \* TRUE while the pointer is over a slide
    \* main.js, page chrome
    loaded,        \* body.classList contains "loaded"
    navbar,        \* TRUE iff .navbar exists
    scrollY,
    scrolled,      \* navbar.classList contains "scrolled"
    menuToggle,    \* TRUE iff .menu-toggle exists
    navLinks,      \* TRUE iff .nav-links exists
    open,          \* navLinks.classList contains "open"
    active,        \* menuToggle.classList contains "active"
    \* gallery.js
    items,         \* sequence of the thumbnails' src attributes
    viewer,        \* TRUE iff .viewer exists
    viewerImg,     \* TRUE iff #viewer-img exists
    closeBtn,      \* TRUE iff .close exists
    viewerSrc,     \* src attribute of #viewer-img
    viewerShow,    \* viewer.classList contains "show"
    \* the event loop, as seen by an observer
    lastEvent,     \* the event dispatched last
    lastItem,      \* the thumbnail clicked last
    prevIndex,     \* index before the last event
    prevTimer,     \* autoSlideId before the last event
    runStart,      \* index before the current run of goNext calls
    runLen,        \* length of the current run of consecutive goNext calls
    hoverPaused,   \* TRUE from a handled mouseenter to the next mouseleave
    menuStart,     \* <<open, active>> before the current pair of menu clicks
    menuRun,       \* menu clicks handled in the current pair
    sinceStart,    \* ms since the last startAutoSlide, up to one period
    loadSteps,     \* the steps the load listener took, in their order
    errors         \* the events whose listener raised an uncaught error

sliderVars == <<slides, nextBtn, prevBtn, index, autoSlideId, intervals,
                remaining, listening, hovering>>
chromeVars == <<navbar, scrollY, scrolled, menuToggle, navLinks, open, active,
                menuStart, menuRun>>
galleryVars == <<items, viewer, viewerImg, closeBtn, viewerSrc, viewerShow,
                 lastItem>>
observerVars == <<prevIndex, prevTimer, runStart, runLen, hoverPaused,
                  sinceStart, loadSteps>>
vars == <<sliderVars, chromeVars, galleryVars, observerVars, loaded, lastEvent, errors>>

\* ---------------------------------------------------------------- helpers
\* the % of JavaScript: the sign of the dividend, NaN for a zero divisor
JsRem(a, b) ==
    IF b = 0 THEN NaN
    ELSE IF a >= 0 THEN a % b
    ELSE -((-a) % b)

\* slides.length
SlidesLength == Len(slides)

\* slides[i] is an element (not undefined)
HasSlide(i) == i \in 0..(SlidesLength - 1)

\* showSlide's forEach: every slide idx gets translateX(100 * (idx - i) %)
ShowSlideNoShift(i) == [k \in 1..SlidesLength |-> 100 * (k - 1)]

ShowSlide(i) == [k \in 1..SlidesLength |-> 100 * ((k - 1) - i)]

\* goNext's and goPrev's new index
GoNextIndexNoWrap(i) == i + 1

GoNextIndexSaturating(i) == IF i + 1 < SlidesLength THEN i + 1 ELSE i

GoNextIndex(i) == JsRem(i + 1, SlidesLength)

GoPrevIndexNoLength(i) == JsRem(i - 1, SlidesLength)

GoPrevIndexClamped(i) == IF i = 0 THEN 0 ELSE i - 1

GoPrevIndex(i) == JsRem(i - 1 + SlidesLength, SlidesLength)

\* stopAutoSlide, on the pair <<autoSlideId, intervals>>
StopAutoSlideToggles(t) ==
    IF t[1] # Null THEN <<Null, t[2] \ {t[1]}>> ELSE <<1, t[2] \cup {1}>>

StopAutoSlide(t) ==
    IF t[1] # Null THEN <<Null, t[2] \ {t[1]}>> ELSE t

\* setInterval's result: an id greater than zero that no live interval has
FreshIds(live) == (1..MaxTimers) \ live

\* startAutoSlide, on the pair <<autoSlideId, intervals>>: the pairs it may leave,
\* one for each id setInterval may return
StartAutoSlideNoStop(t) ==
    {<<n, t[2] \cup {n}>> : n \in FreshIds(t[2])}

StartAutoSlide(t) ==
    LET s == StopAutoSlide(t) IN {<<n, s[2] \cup {n}>> : n \in FreshIds(s[2])}

\* the delay of the interval startAutoSlide creates when <<autoSlideId,
\* intervals>> is t: a full period, whatever was left of an earlier interval
ArmedDelayCarried(t) ==
    IF t[1] # Null /\ t[1] \in DOMAIN remaining
    THEN remaining[t[1]] ELSE AUTO_SLIDE_INTERVAL_MS

ArmedDelay(t) == AUTO_SLIDE_INTERVAL_MS

\* the countdowns after startAutoSlide has left the pair p
Rearmed(p) ==
    [t \in p[2] |-> IF t = p[1] THEN ArmedDelay(<<autoSlideId, intervals>>)
                    ELSE remaining[t]]

\* the countdowns after stopAutoSlide has left the pair p
Disarmed(p) == [t \in p[2] |-> remaining[t]]

\* the granularity of time in the model: half a period
TimeStep == AUTO_SLIDE_INTERVAL_MS \div 2

\* the load listener's test of slides.length
SliderPresentAlways == TRUE

SliderPresent == SlidesLength # 0

\* what the observer records of a listener that called goNext / goPrev / neither
ObserveGoNext ==
    /\ prevIndex' = index
    /\ prevTimer' = autoSlideId
    /\ IF runLen >= SlidesLength
       THEN runStart' = index /\ runLen' = 1
       ELSE runStart' = runStart /\ runLen' = runLen + 1

ObserveGoPrev ==
    /\ prevIndex' = index
    /\ prevTimer' = autoSlideId
    /\ runStart' = index'
    /\ runLen' = 0

ObserveIdle ==
    /\ prevIndex' = index
    /\ prevTimer' = autoSlideId
    /\ UNCHANGED <<runStart, runLen>>

\* ------------------------------------------------------- slide controller
\* the state of the page when main.js has run: nothing is wired before load
InitSliderListening ==
    /\ slides \in {[k \in 1..n |-> NoTransform] : n \in 0..MaxSlides}
    /\ nextBtn \in BOOLEAN
    /\ prevBtn \in BOOLEAN
    /\ index = 0
    /\ autoSlideId = Null
    /\ intervals = {}
    /\ remaining = <<>>
    /\ listening = (SlidesLength > 0)
    /\ hovering = FALSE
    /\ prevIndex = 0
    /\ prevTimer = Null
    /\ runStart = 0
    /\ runLen = 0
    /\ hoverPaused = FALSE
    /\ sinceStart = 0
    /\ loadSteps = <<>>

InitSlider ==
    /\ slides \in {[k \in 1..n |-> NoTransform] : n \in 0..MaxSlides}
    /\ nextBtn \in BOOLEAN
    /\ prevBtn \in BOOLEAN
    /\ index = 0
    /\ autoSlideId = Null
    /\ intervals = {}
    /\ remaining = <<>>
    /\ listening = FALSE
    /\ hovering = FALSE
    /\ prevIndex = 0
    /\ prevTimer = Null
    /\ runStart = 0
    /\ runLen = 0
    /\ hoverPaused = FALSE
    /\ sinceStart = 0
    /\ loadSteps = <<>>

\* the statements of the load listener, in their order, up to the first
\* that raises an error
LoadStepsSliderFirst ==
    IF SliderPresent
    THEN IF HasSlide(index)
         THEN <<"showSlide", "attachListeners", "startAutoSlide", "loaded">>
         ELSE <<"showSlide">>
    ELSE <<"loaded">>

LoadSteps ==
    <<"loaded">> \o
    (IF SliderPresent
     THEN IF HasSlide(index)
          THEN <<"showSlide", "attachListeners", "startAutoSlide">>
          ELSE <<"showSlide">>
     ELSE <<>>)

\* "loaded" is on the body after document.body.classList.add("loaded")
BodyLoadedIfSlides == SliderPresent

BodyLoaded == TRUE

\* window "load": the loaded flag, then the slider's initialisation
Load ==
    /\ ~loaded
    /\ loaded' = BodyLoaded
    /\ lastEvent' = "load"
    /\ ObserveIdle
    /\ UNCHANGED <<nextBtn, prevBtn, index, hovering, hoverPaused>>
    /\ loadSteps' = LoadSteps
    /\ IF SliderPresent
       THEN /\ slides' = ShowSlide(index)
            /\ IF HasSlide(index)
               THEN /\ listening' = TRUE
                    /\ \E p \in StartAutoSlide(<<autoSlideId, intervals>>) :
                          autoSlideId' = p[1] /\ intervals' = p[2]
                          /\ remaining' = Rearmed(p) /\ sinceStart' = 0
                    /\ UNCHANGED errors
               ELSE /\ errors' = errors \cup {"load"}
                    /\ UNCHANGED <<listening, autoSlideId, intervals, remaining,
                                   sinceStart>>
       ELSE UNCHANGED <<slides, listening, autoSlideId, intervals, remaining,
                        sinceStart, errors>>
    /\ UNCHANGED <<chromeVars, galleryVars>>

\* click on #next: goNext(); startAutoSlide()
ClickNext ==
    /\ nextBtn
    /\ lastEvent' = "next"
    /\ UNCHANGED <<nextBtn, prevBtn, listening, hovering, hoverPaused, loaded,
                   loadSteps>>
    /\ IF listening
       THEN /\ index' = GoNextIndex(index)
            /\ slides' = ShowSlide(index')
            /\ ObserveGoNext
            /\ IF HasSlide(index')
               THEN /\ \E p \in StartAutoSlide(<<autoSlideId, intervals>>) :
                          autoSlideId' = p[1] /\ intervals' = p[2]
                          /\ remaining' = Rearmed(p) /\ sinceStart' = 0
                    /\ UNCHANGED errors
               ELSE /\ errors' = errors \cup {"next"}
                    /\ UNCHANGED <<autoSlideId, intervals, remaining, sinceStart>>
       ELSE /\ ObserveIdle
            /\ UNCHANGED <<index, slides, autoSlideId, intervals, remaining,
                           sinceStart, errors>>
    /\ UNCHANGED <<chromeVars, galleryVars>>

\* click on #prev: goPrev(); startAutoSlide()
ClickPrev ==
    /\ prevBtn
    /\ lastEvent' = "prev"
    /\ UNCHANGED <<nextBtn, prevBtn, listening, hovering, hoverPaused, loaded,
                   loadSteps>>
    /\ IF listening
       THEN /\ index' = GoPrevIndex(index)
            /\ slides' = ShowSlide(index')
            /\ ObserveGoPrev
            /\ IF HasSlide(index')
               THEN /\ \E p \in StartAutoSlide(<<autoSlideId, intervals>>) :
                          autoSlideId' = p[1] /\ intervals' = p[2]
                          /\ remaining' = Rearmed(p) /\ sinceStart' = 0
                    /\ UNCHANGED errors
               ELSE /\ errors' = errors \cup {"prev"}
                    /\ UNCHANGED <<autoSlideId, intervals, remaining, sinceStart>>
       ELSE /\ ObserveIdle
            /\ UNCHANGED <<index, slides, autoSlideId, intervals, remaining,
                           sinceStart, errors>>
    /\ UNCHANGED <<chromeVars, galleryVars>>

\* the pointer enters a slide: stopAutoSlide, once the listeners are attached
MouseEnter ==
    /\ SlidesLength > 0
    /\ ~hovering
    /\ hovering' = TRUE
    /\ lastEvent' = "mouseenter"
    /\ ObserveIdle
    /\ UNCHANGED <<slides, nextBtn, prevBtn, index, listening, loaded, errors,
                   sinceStart, loadSteps>>
    /\ IF listening
       THEN /\ autoSlideId' = StopAutoSlide(<<autoSlideId, intervals>>)[1]
            /\ intervals' = StopAutoSlide(<<autoSlideId, intervals>>)[2]
            /\ remaining' = Disarmed(StopAutoSlide(<<autoSlideId, intervals>>))
            /\ hoverPaused' = TRUE
       ELSE UNCHANGED <<autoSlideId, intervals, remaining, hoverPaused>>
    /\ UNCHANGED <<chromeVars, galleryVars>>

\* the pointer leaves the slide: startAutoSlide, once the listeners are attached
MouseLeave ==
    /\ hovering
    /\ hovering' = FALSE
    /\ lastEvent' = "mouseleave"
    /\ ObserveIdle
    /\ hoverPaused' = FALSE
    /\ UNCHANGED <<slides, nextBtn, prevBtn, index, listening, loaded, errors,
                   loadSteps>>
    /\ IF listening
       THEN \E p \in StartAutoSlide(<<autoSlideId, intervals>>) :
               autoSlideId' = p[1] /\ intervals' = p[2]
                          /\ remaining' = Rearmed(p) /\ sinceStart' = 0
       ELSE UNCHANGED <<autoSlideId, intervals, remaining, sinceStart>>
    /\ UNCHANGED <<chromeVars, galleryVars>>

\* a live interval is due and fires: goNext(); it is due again a period later
Tick ==
    /\ intervals # {}
    /\ \E t \in intervals :
          /\ remaining[t] = 0
          /\ remaining' = [remaining EXCEPT ![t] = AUTO_SLIDE_INTERVAL_MS]
    /\ lastEvent' = "tick"
    /\ index' = GoNextIndex(index)
    /\ slides' = ShowSlide(index')
    /\ ObserveGoNext
    /\ errors' = IF HasSlide(index') THEN errors ELSE errors \cup {"tick"}
    /\ UNCHANGED <<nextBtn, prevBtn, autoSlideId, intervals, listening, hovering,
                   hoverPaused, loaded, sinceStart, loadSteps>>
    /\ UNCHANGED <<chromeVars, galleryVars>>

\* time passes while an interval is live: every countdown runs down, a due
\* interval stays due until the event loop fires it
Elapse ==
    /\ intervals # {}
    /\ remaining' = [t \in intervals |->
                        IF remaining[t] > TimeStep THEN remaining[t] - TimeStep ELSE 0]
    /\ sinceStart' = IF sinceStart + TimeStep < AUTO_SLIDE_INTERVAL_MS
                     THEN sinceStart + TimeStep ELSE AUTO_SLIDE_INTERVAL_MS
    /\ <<remaining', sinceStart'>> # <<remaining, sinceStart>>
    /\ UNCHANGED <<slides, nextBtn, prevBtn, index, autoSlideId, intervals, listening,
                   hovering, loaded, lastEvent, errors>>
    /\ UNCHANGED <<prevIndex, prevTimer, runStart, runLen, hoverPaused, loadSteps>>
    /\ UNCHANGED <<chromeVars, galleryVars>>

\* ------------------------------------------------------------ page chrome
\* the scroll offsets the model samples, on both sides of the threshold
ScrollOffsets == {0, ScrollThreshold - 1, ScrollThreshold, ScrollThreshold + 1,
                  2 * ScrollThreshold}

\* the state of the page when main.js has run: the menu listener is attached
\* iff both .menu-toggle and .nav-links exist
InitChrome ==
    /\ navbar \in BOOLEAN
    /\ scrollY = 0
    /\ scrolled \in {s \in BOOLEAN : navbar \/ ~s}
    /\ menuToggle \in BOOLEAN
    /\ navLinks \in BOOLEAN
    /\ open \in {o \in BOOLEAN : navLinks \/ ~o}
    /\ active \in {a \in BOOLEAN : menuToggle \/ ~a}
    /\ menuStart = <<open, active>>
    /\ menuRun = 0

\* the menu-toggle click listener was attached
MenuWired == menuToggle /\ navLinks

\* the scroll listener's test of window.scrollY
ScrolledAtInclusive(y) == y >= ScrollThreshold

ScrolledAt(y) == y > ScrollThreshold

\* window "scroll" at offset y: nav.classList of a null nav is a TypeError
ScrollClosingMenu ==
    \E y \in ScrollOffsets :
        /\ scrollY' = y
        /\ lastEvent' = "scroll"
        /\ IF navbar
           THEN /\ scrolled' = ScrolledAt(y)
                /\ UNCHANGED errors
           ELSE /\ errors' = errors \cup {"scroll"}
                /\ UNCHANGED scrolled
        /\ open' = FALSE
        /\ UNCHANGED <<navbar, menuToggle, navLinks, active, loaded>>
        /\ UNCHANGED <<menuStart, menuRun>>
        /\ UNCHANGED <<sliderVars, galleryVars, observerVars>>

Scroll ==
    \E y \in ScrollOffsets :
        /\ scrollY' = y
        /\ lastEvent' = "scroll"
        /\ IF navbar
           THEN /\ scrolled' = ScrolledAt(y)
                /\ UNCHANGED errors
           ELSE /\ errors' = errors \cup {"scroll"}
                /\ UNCHANGED scrolled
        /\ UNCHANGED <<navbar, menuToggle, navLinks, open, active, loaded>>
        /\ UNCHANGED <<menuStart, menuRun>>
        /\ UNCHANGED <<sliderVars, galleryVars, observerVars>>

\* classList.toggle of a class that is on the element iff flag
ClassListAdd(flag) == TRUE

ClassListToggle(flag) == ~flag

\* what the observer records of a handled menu click
ObserveMenuClick ==
    IF menuRun >= 2
    THEN menuStart' = <<open, active>> /\ menuRun' = 1
    ELSE menuStart' = menuStart /\ menuRun' = menuRun + 1

\* click on .menu-toggle: toggle "open" and "active"
MenuClick ==
    /\ menuToggle
    /\ lastEvent' = "menu"
    /\ IF MenuWired
       THEN /\ open' = ClassListToggle(open)
            /\ active' = ClassListToggle(active)
            /\ ObserveMenuClick
       ELSE UNCHANGED <<open, active, menuStart, menuRun>>
    /\ UNCHANGED <<navbar, scrollY, scrolled, menuToggle, navLinks, loaded, errors>>
    /\ UNCHANGED <<sliderVars, galleryVars, observerVars>>

\* ------------------------------------------------------- gallery lightbox
\* src attributes of the thumbnails: relative and absolute URLs
SrcAttrs == {<<"a.jpg">>, <<"b.jpg">>, <<"https:", "art-link", "b.jpg">>}

\* the src property of an image: its src attribute resolved against the page
ImgSrc(attr) ==
    IF attr = <<>> THEN <<>>
    ELSE IF Head(attr) = "https:" THEN attr
    ELSE <<"https:", "art-link">> \o attr

\* the reference the click listener of thumbnail k stores: img.src
ClickedSrcOfFirst(k) == ImgSrc(items[1])

ClickedSrc(k) == ImgSrc(items[k])

\* the state of the page when gallery.js has run: the item listeners are
\* attached, then closeBtn.addEventListener of a null closeBtn is a TypeError
InitGallery ==
    /\ items \in UNION {[1..n -> SrcAttrs] : n \in 0..MaxItems}
    /\ viewer \in BOOLEAN
    /\ viewerImg \in BOOLEAN
    /\ closeBtn \in BOOLEAN
    /\ viewerSrc = <<>>
    /\ viewerShow = FALSE
    /\ lastItem = 0
    /\ errors = IF closeBtn THEN {} ELSE {"gallery.js"}

\* click on thumbnail k: viewerImg.src = img.src; viewer.classList.add("show")
ItemClickGuarded ==
    \E k \in 1..Len(items) :
        /\ lastEvent' = "item"
        /\ lastItem' = k
        /\ IF viewerImg /\ viewer
           THEN viewerSrc' = ClickedSrc(k) /\ viewerShow' = TRUE
           ELSE UNCHANGED <<viewerSrc, viewerShow>>
        /\ UNCHANGED <<items, viewer, viewerImg, closeBtn, loaded, errors>>
        /\ UNCHANGED <<sliderVars, chromeVars, observerVars>>

ItemClick ==
    \E k \in 1..Len(items) :
        /\ lastEvent' = "item"
        /\ lastItem' = k
        /\ IF viewerImg
           THEN /\ viewerSrc' = ClickedSrc(k)
                /\ IF viewer
                   THEN viewerShow' = TRUE /\ UNCHANGED errors
                   ELSE errors' = errors \cup {"item"} /\ UNCHANGED viewerShow
           ELSE /\ errors' = errors \cup {"item"}
                /\ UNCHANGED <<viewerSrc, viewerShow>>
        /\ UNCHANGED <<items, viewer, viewerImg, closeBtn, loaded>>
        /\ UNCHANGED <<sliderVars, chromeVars, observerVars>>

\* click on .close: viewer.classList.remove("show")
CloseClick ==
    /\ closeBtn
    /\ lastEvent' = "close"
    /\ IF viewer
       THEN viewerShow' = FALSE /\ UNCHANGED errors
       ELSE errors' = errors \cup {"close"} /\ UNCHANGED viewerShow
    /\ UNCHANGED <<items, viewer, viewerImg, closeBtn, viewerSrc, lastItem, loaded>>
    /\ UNCHANGED <<sliderVars, chromeVars, observerVars>>

\* --------------------------------------------------------- specifications
\* a page without slider, chrome or gallery elements
NoSlider ==
    /\ slides = <<>> /\ nextBtn = FALSE /\ prevBtn = FALSE
    /\ index = 0 /\ autoSlideId = Null /\ intervals = {} /\ remaining = <<>>
    /\ listening = FALSE /\ hovering = FALSE
    /\ prevIndex = 0 /\ prevTimer = Null /\ runStart = 0 /\ runLen = 0 /\ hoverPaused = FALSE
    /\ sinceStart = 0 /\ loadSteps = <<>>

NoChrome ==
    /\ navbar = FALSE /\ scrollY = 0 /\ scrolled = FALSE
    /\ menuToggle = FALSE /\ navLinks = FALSE /\ open = FALSE /\ active = FALSE
    /\ menuStart = <<FALSE, FALSE>> /\ menuRun = 0

NoGallery ==
    /\ items = <<>> /\ viewer = FALSE /\ viewerImg = FALSE /\ closeBtn = FALSE
    /\ viewerSrc = <<>> /\ viewerShow = FALSE /\ lastItem = 0

\* the slide controller of main.js
Init ==
    /\ InitSlider /\ NoChrome /\ NoGallery
    /\ loaded = FALSE /\ lastEvent = "none" /\ errors = {}

Next ==
    \/ Load
    \/ ClickNext
    \/ ClickPrev
    \/ MouseEnter
    \/ MouseLeave
    \/ Tick
    \/ Elapse

Spec == Init /\ [][Next]_vars

\* the page chrome of main.js
InitPage ==
    /\ InitChrome /\ NoSlider /\ NoGallery
    /\ loaded = FALSE /\ lastEvent = "none" /\ errors = {}

NextPage ==
    \/ Load
    \/ Scroll
    \/ MenuClick

SpecChrome == InitPage /\ [][NextPage]_vars

\* the lightbox of gallery.js
InitLightbox ==
    /\ InitGallery /\ NoSlider /\ NoChrome
    /\ loaded = FALSE /\ lastEvent = "none"

NextLightbox ==
    \/ ItemClick
    \/ CloseClick

SpecGallery == InitLightbox /\ [][NextLightbox]_vars

\* a page that loads both scripts: a slider of two slides or none, both
\* buttons, the navbar and the menu, and a complete lightbox with one
\* thumbnail or none, the menu closed
InitSite ==
    /\ InitSlider /\ SlidesLength \in {0, 2} /\ nextBtn /\ prevBtn
    /\ InitChrome /\ navbar /\ menuToggle /\ navLinks /\ ~scrolled /\ ~open /\ ~active
    /\ InitGallery /\ viewer /\ viewerImg /\ closeBtn
    /\ items \in {<<>>, << <<"b.jpg">> >>}
    /\ loaded = FALSE /\ lastEvent = "none"

NextSite ==
    \/ Load
    \/ ClickNext
    \/ ClickPrev
    \/ MouseEnter
    \/ MouseLeave
    \/ Tick
    \/ Elapse
    \/ Scroll
    \/ MenuClick
    \/ ItemClick
    \/ CloseClick

SpecSite == InitSite /\ [][NextSite]_vars

\* the slide controller, its timer firing whenever an interval stays due and
\* time passing whenever an interval waits
SpecLive == Init /\ [][Next]_vars /\ WF_vars(Tick) /\ WF_vars(Elapse)

\* ------------------------------------------------------------------ claims
\* the listener of the last event called goNext / goPrev / startAutoSlide
RanGoNext == lastEvent = "tick" \/ (lastEvent = "next" /\ listening)

RanGoPrev == lastEvent = "prev" /\ listening

RanStart ==
    listening /\ lastEvent \in {"load", "next", "prev", "mouseleave"}

\* C1: on a page with N >= 1 slides, whatever load, click, hover and tick
\* events have happened, 0 <= index < N.
IndexInRange ==
    SlidesLength >= 1 => (index >= 0 /\ index < SlidesLength)

\* a previous-click at index 0 of three slides has wrapped to the last slide
IndexWrappedBack ==
    /\ SlidesLength = 3 /\ RanGoPrev
    /\ prevIndex = 0 /\ index = 2

\* C2: at most one interval is live in every state, autoSlideId is that
\* interval, and a startAutoSlide (also one that finds a timer running)
\* leaves exactly one.
OneLiveTimer ==
    /\ Cardinality(intervals) <= 1
    /\ intervals = (IF autoSlideId = Null THEN {} ELSE {autoSlideId})
    /\ RanStart => (Cardinality(intervals) = 1 /\ intervals = {autoSlideId})

\* startAutoSlide has run while the timer of an earlier startAutoSlide was live
StartedTwice ==
    /\ lastEvent = "next" /\ listening
    /\ prevTimer # Null
    /\ autoSlideId # Null /\ intervals = {autoSlideId}

\* C3: every goNext sets index to (index + 1) mod N, and N goNext calls in a
\* row bring index back to where the run started.
GoNextCycles ==
    SlidesLength >= 1 =>
        /\ RanGoNext => index = (prevIndex + 1) % SlidesLength
        /\ runLen = SlidesLength => index = runStart

\* three goNext calls in a row from index 1 of three slides
CycleCompleted ==
    /\ SlidesLength = 3 /\ RanGoNext
    /\ runLen = 3 /\ runStart = 1 /\ index = 1

\* C4: goPrev at index 0 sets index to N - 1, and at index > 0 to index - 1.
GoPrevWraps ==
    (SlidesLength >= 1 /\ RanGoPrev) =>
        index = (IF prevIndex = 0 THEN SlidesLength - 1 ELSE prevIndex - 1)

\* a previous-click at index 0 of two slides, the timer of load or of an
\* earlier click running
PrevRightAfterInit ==
    /\ SlidesLength = 2 /\ RanGoPrev
    /\ prevIndex = 0 /\ index = 1 /\ runLen = 0 /\ runStart = 1
    /\ prevTimer # Null /\ ~hovering

\* C5: stopAutoSlide without an active timer changes neither the timer handle
\* nor the live intervals, a second stopAutoSlide changes nothing the first
\* left, and the mouseenter listener (stopAutoSlide alone) leaves index alone.
StopIsIdempotent ==
    LET t == <<autoSlideId, intervals>> IN
    /\ autoSlideId = Null => StopAutoSlide(t) = t
    /\ StopAutoSlide(StopAutoSlide(t)) = StopAutoSlide(t)
    /\ (lastEvent = "mouseenter" /\ listening) =>
           (index = prevIndex /\ StopAutoSlide(t) = t)

\* the mouseenter listener has stopped a running timer
StoppedOnce ==
    /\ lastEvent = "mouseenter" /\ listening
    /\ prevTimer # Null /\ autoSlideId = Null /\ intervals = {}

\* C6: on a page without slides no timer is created, index stays 0, no
\* listener is attached and no listener raises an error.
NoSlidesNoEffect ==
    SlidesLength = 0 =>
        /\ index = 0
        /\ autoSlideId = Null /\ intervals = {}
        /\ ~listening
        /\ errors = {}

\* a click on #next after load, on a page that has the button and no slide
ClickedWithoutSlides ==
    /\ SlidesLength = 0 /\ nextBtn
    /\ loaded /\ lastEvent = "next"

\* C7: from a handled mouseenter to the next mouseleave no interval is live,
\* whatever else happens in between (clicks included), no tick advances index
\* meanwhile, and after the mouseleave a timer is active again.
HoverPauses ==
    /\ hoverPaused => (autoSlideId = Null /\ intervals = {})
    /\ lastEvent = "tick" => ~hoverPaused
    /\ (lastEvent = "mouseleave" /\ listening) => autoSlideId # Null

\* C8: an event whose page-chrome element is absent is a no-op without an
\* error: no scroll listener fails on a page without .navbar, no menu click
\* fails or flips a flag without both menu elements, load always succeeds.
ChromeAbsenceIsGraceful ==
    /\ ~navbar => ("scroll" \notin errors /\ ~scrolled)
    /\ ~MenuWired => "menu" \notin errors
    /\ "load" \notin errors

\* C9: after a thumbnail click the overlay is shown with the source of the
\* thumbnail clicked last; after a close click it is hidden and the displayed
\* reference is still that of the thumbnail clicked last (none if none was).
LightboxShowsLastClicked ==
    /\ (viewer /\ viewerImg /\ lastEvent = "item") =>
           (viewerShow /\ ImgSrc(viewerSrc) = ImgSrc(items[lastItem]))
    /\ (viewer /\ lastEvent = "close") => ~viewerShow
    /\ (viewerImg /\ lastEvent = "close") =>
           ImgSrc(viewerSrc) =
               (IF lastItem = 0 THEN <<>> ELSE ImgSrc(items[lastItem]))

\* the overlay was closed after a click on b.jpg, the second thumbnail after a.jpg
ClosedAfterSecondItem ==
    /\ viewer /\ viewerImg /\ lastEvent = "close"
    /\ Len(items) = 2 /\ items[1] = <<"a.jpg">> /\ items[2] = <<"b.jpg">>
    /\ lastItem = 2 /\ ~viewerShow
    /\ viewerSrc = <<"https:", "art-link", "b.jpg">>

\* C10: after a scroll event on a page with a navbar the scrolled flag is
\* scrollY > 60: false at 59 and at 60, true at 61, whatever it was before.
ScrolledIffAbove60 ==
    (navbar /\ lastEvent = "scroll") =>
        /\ scrolled = (scrollY > 60)
        /\ scrollY = 59 => ~scrolled
        /\ scrollY = 60 => ~scrolled
        /\ scrollY = 61 => scrolled

\* a scroll event at the threshold itself has left the flag cleared
ScrolledToThreshold ==
    /\ navbar /\ lastEvent = "scroll"
    /\ scrollY = 60 /\ ~scrolled

\* C11: with both menu elements present every click on the toggle flips "open"
\* and "active", and two clicks in a row bring both back, whatever the two
\* flags were.
MenuToggleIsInvolution ==
    MenuWired =>
        /\ menuRun = 1 => (open = ~menuStart[1] /\ active = ~menuStart[2])
        /\ menuRun = 2 => <<open, active>> = menuStart

\* two clicks from "open" set and "active" clear have restored that combination
MenuToggledTwice ==
    /\ MenuWired /\ lastEvent = "menu"
    /\ menuRun = 2 /\ menuStart = <<TRUE, FALSE>>
    /\ open /\ ~active

\* C12: the load event leaves the body "loaded" whether or not the page has
\* slides or thumbnails, and no later event clears the flag.
LoadedSticks ==
    /\ [](lastEvent = "load" => loaded)
    /\ [][loaded => loaded']_vars

\* the flag is still set after a menu click on a loaded page without slides
\* and without thumbnails
LoadedWithoutContent ==
    /\ SlidesLength = 0 /\ Len(items) = 0
    /\ loaded /\ lastEvent = "menu"

\* C13 as stated: a click on #next or #prev of a page with slides moves index
\* one position with wrap-around and leaves exactly one timer.
ClickMovesAndRestarts ==
    SlidesLength >= 1 =>
        /\ lastEvent = "next" =>
               /\ index = (prevIndex + 1) % SlidesLength
               /\ autoSlideId # Null /\ intervals = {autoSlideId}
        /\ lastEvent = "prev" =>
               /\ index = (prevIndex - 1 + SlidesLength) % SlidesLength
               /\ autoSlideId # Null /\ intervals = {autoSlideId}

\* C13, amended: once the load event has fired, a click on #next or #prev of
\* a page with slides moves index one position with wrap-around and leaves
\* exactly one timer, whether or not one was active before.
ClickAfterLoadMovesAndRestarts ==
    (loaded /\ SlidesLength >= 1) =>
        /\ lastEvent = "next" =>
               /\ index = (prevIndex + 1) % SlidesLength
               /\ autoSlideId # Null /\ intervals = {autoSlideId}
        /\ lastEvent = "prev" =>
               /\ index = (prevIndex - 1 + SlidesLength) % SlidesLength
               /\ autoSlideId # Null /\ intervals = {autoSlideId}

\* a previous-click while hover had the timer stopped wrapped to the last of
\* three slides and started a timer
ClickedWhilePaused ==
    /\ loaded /\ SlidesLength = 3 /\ lastEvent = "prev"
    /\ prevTimer = Null /\ prevIndex = 0 /\ index = 2
    /\ autoSlideId # Null /\ intervals = {autoSlideId}

\* C14: an absent lightbox element makes its use fail: without .close the
\* wiring of gallery.js has failed, and without .viewer or #viewer-img every
\* thumbnail click fails and shows no overlay.
LightboxFailsWhenIncomplete ==
    /\ ~closeBtn => "gallery.js" \in errors
    /\ (lastEvent = "item" /\ (~viewer \/ ~viewerImg)) =>
           ("item" \in errors /\ ~viewerShow)
    /\ (lastEvent = "item" /\ ~viewerImg) => viewerSrc = <<>>

\* a thumbnail click has failed on a page whose only missing element is
\* #viewer-img
ItemClickFailed ==
    /\ viewer /\ ~viewerImg /\ closeBtn
    /\ lastEvent = "item" /\ errors = {"item"}

\* C15: once showSlide has run, slide idx is at 100 * (idx - index) percent
\* for every idx, so the one slide at offset 0 is the slide at index.
CurrentSlideVisible ==
    (loaded /\ SlidesLength >= 1) =>
        /\ \A k \in 1..SlidesLength : slides[k] = 100 * ((k - 1) - index)
        /\ {k \in 1..SlidesLength : slides[k] = 0} = {index + 1}

\* the last of three slides is shown, the others one and two widths to its left
LastSlideVisible ==
    /\ loaded /\ index = 2
    /\ slides = <<-200, -100, 0>>

\* C16: before the load event no slider event has an effect (index 0, no
\* timer, no listener, no slide positioned); the load listener sets "loaded",
\* then, only if slides exist, renders slide 0, attaches the listeners and
\* starts the timer, in this order.
InertUntilLoad ==
    /\ ~loaded =>
           /\ index = 0 /\ autoSlideId = Null /\ intervals = {}
           /\ ~listening /\ ~hoverPaused
           /\ \A k \in 1..SlidesLength : slides[k] = NoTransform
           /\ loadSteps = <<>>
    /\ loaded =>
           /\ listening = (SlidesLength >= 1)
           /\ loadSteps =
                  (IF SlidesLength >= 1
                   THEN <<"loaded", "showSlide", "attachListeners", "startAutoSlide">>
                   ELSE <<"loaded">>)
    /\ lastEvent = "load" =>
           /\ index = 0
           /\ SlidesLength >= 1 =>
                  /\ slides = [k \in 1..SlidesLength |-> 100 * (k - 1)]
                  /\ autoSlideId # Null /\ intervals = {autoSlideId}

\* the pointer is over a slide and #next was clicked, all before load
ClickedBeforeLoad ==
    /\ ~loaded /\ SlidesLength = 2
    /\ hovering /\ lastEvent = "next"

\* C17: a timer tick comes no earlier than a full period of 7000 ms after the
\* last startAutoSlide: every startAutoSlide arms a full period, whatever had
\* elapsed of the period of an interval stopped or replaced before.
FullPeriodAfterStart ==
    /\ autoSlideId # Null => remaining[autoSlideId] + sinceStart >= 7000
    /\ (RanStart /\ sinceStart = 0) => remaining[autoSlideId] = 7000
    /\ lastEvent = "tick" => sinceStart >= 7000

\* half a period after a next-click replaced a running timer, the new timer
\* has half a period left
RestartedMidPeriod ==
    /\ lastEvent = "next" /\ listening /\ prevTimer # Null
    /\ sinceStart = 3500 /\ remaining[autoSlideId] = 3500

\* the state of each behaviour
sliderState == <<slides, index, autoSlideId, intervals, remaining, listening>>

lightboxState == <<viewerSrc, viewerShow>>

menuState == <<open, active>>

\* C18: slider events leave the lightbox, the scrolled flag and the menu flags
\* alone; thumbnail and close clicks leave the slider and the chrome flags
\* alone; a scroll event changes only the scrolled flag (and the offset); a
\* menu click changes only "open" and "active".
BehavioursIndependent ==
    /\ [][(ClickNext \/ ClickPrev \/ MouseEnter \/ MouseLeave \/ Tick) =>
            UNCHANGED <<lightboxState, scrolled, menuState>>]_vars
    /\ [][(ItemClick \/ CloseClick) =>
            UNCHANGED <<sliderState, scrolled, menuState, loaded>>]_vars
    /\ [][Scroll =>
            UNCHANGED <<sliderState, lightboxState, menuState, loaded, errors>>]_vars
    /\ [][MenuClick =>
            UNCHANGED <<sliderState, lightboxState, scrolled, scrollY, loaded,
                        errors>>]_vars

\* every behaviour has acted: second slide, overlay on b.jpg, navbar scrolled,
\* menu open
AllBehavioursActed ==
    /\ SlidesLength = 2 /\ index = 1 /\ autoSlideId # Null
    /\ viewerShow /\ viewerSrc = <<"https:", "art-link", "b.jpg">>
    /\ scrolled /\ open /\ active
    /\ lastEvent = "tick"

\* the events of manual navigation and hover
ManualEvents == {"next", "prev", "mouseenter", "mouseleave"}

\* C19: a tick moves index to (index + 1) mod N and leaves the timer as it
\* was; and when from some point on the timer stays active and no click or
\* hover event happens, every slide is the current one again and again.
AutoAdvanceCycles ==
    /\ [](lastEvent = "tick" =>
            /\ index = (prevIndex + 1) % SlidesLength
            /\ autoSlideId = prevTimer /\ intervals = {autoSlideId})
    /\ \A i \in 0..(MaxSlides - 1) :
           <>[](autoSlideId # Null /\ lastEvent \notin ManualEvents) =>
               []<>(i >= SlidesLength \/ index = i)

\* a tick has wrapped from the last of three slides to the first, nobody
\* hovering
TickWrapped ==
    /\ SlidesLength = 3 /\ lastEvent = "tick" /\ ~hovering
    /\ prevIndex = 2 /\ index = 0 /\ autoSlideId # Null

====
